---- MODULE Spec2Model ----
(***************************************************************************)
(* A model of the TodoReview scan engine (src/plugin/TodoReview.py):       *)
(* pattern compilation, file enumeration, extraction, the worker thread    *)
(* the result organizer and the navigation in the report.                 *)
(*                                                                         *)
(* Strings are sequences of one-character strings.  A path is a sequence   *)
(* of components, rendered with "/" in front of every component when a     *)
(* regular expression is applied to it.                                    *)
(***************************************************************************)
EXTENDS Integers, Sequences, FiniteSets, TLC

VARIABLES
    settings,   \* the module global `settings`: a configuration, or NoSettings
    thread,     \* the module global `thread`: id of the Thread last created, 0 if none
    nRuns,      \* number of TodoReviewCommand.run invocations so far
    req,        \* req[n]: the arguments of invocation n
    pc,         \* pc[n]: position of invocation n / of its worker thread
    engine,     \* engine[n]: the fields of the Engine built by invocation n
    todo,       \* todo[n]: elements of self.filepaths the second loop of files() has not visited
    seen,       \* seen[n]: the local seen_paths of files()
    cur,        \* cur[n]: the path p extract() is working on
    yielded,    \* yielded[n]: the paths files() has yielded, in order
    visited,    \* visited[n]: <<candidate, resolved>> for every candidate the second loop visited
    results,    \* results[n]: the findings extract() has yielded, in order
    count,      \* count[n]: Thread.i of the Thread of invocation n
    incs,       \* incs[n]: number of thread.increment() calls made by the worker of invocation n
    delivered,  \* delivered[n]: sequence of <<results, count>> handed to the callback
    opened,     \* opened[n]: the paths the worker of invocation n called open() on
    fsUnreadable, \* files whose open() raises OSError
    fsUndecodable, \* files whose readlines() raises UnicodeDecodeError
    walked,     \* walked[n]: the directories os.walk reported to the worker of invocation n
    fsMain,     \* fsMain[n]: the file-system calls run() made itself in invocation n
    pending,    \* the directories os.walk has still to report (step-by-step walk)
    lock,       \* lock[t]: the worker that holds Thread t's self.lock, 0 if it is free
    target,     \* target[n]: the Thread whose increment() the worker of invocation n is in
    loaded,     \* loaded[n]: the value of self.i the worker of invocation n has read
    published,  \* published[t]: the numbers Thread t has shown with status_message
    report,     \* the report view: its result regions, its settings, its highlighted region
    inp,        \* input of the pure function under study
    out         \* its result

lockVars == <<lock, target, loaded>>

vars == <<settings, thread, nRuns, req, pc, engine, todo, seen, cur, yielded,
          visited, results, count, incs, delivered, opened, fsUnreadable, fsUndecodable,
          walked, fsMain, pending, lockVars, published, report, inp, out>>

scanVars == <<settings, thread, nRuns, req, pc, engine, todo, seen, cur, yielded,
              visited, results, count, incs, delivered, opened, fsUnreadable, fsUndecodable,
              walked, fsMain, pending, lockVars, published>>

-----------------------------------------------------------------------------
\* Bounds

\* invocations of the todo_review command in one behaviour
MaxRuns == 2

\* longest note whose priority marker is looked for
MaxNoteLen == 6

\* longest line handed to the merged tag pattern
MaxLineLen == 4

\* most findings handed to the organizer
MaxFindings == 3

\* most lines of the file whose decoding fails
MaxFileLines == 3

\* symbolic links on the way to a directory that the walk still tells apart
MaxHops == 2

\* longest exclude glob and longest path it is searched in
MaxGlobLen == 3
MaxPathLen == 4

-----------------------------------------------------------------------------
\* Generic helpers

Range(s) == {s[i] : i \in 1..Len(s)}

RECURSIVE SeqsUpTo(_, _)
SeqsUpTo(S, n) ==
    IF n = 0 THEN {<<>>}
    ELSE LET shorter == SeqsUpTo(S, n - 1)
         IN  shorter \cup {Append(s, x) : s \in {t \in shorter : Len(t) = n - 1}, x \in S}

RECURSIVE Flatten(_)
Flatten(ss) == IF ss = <<>> THEN <<>> ELSE Head(ss) \o Flatten(Tail(ss))

\* code points of the characters the model uses (ASCII)
Ord(c) ==
    CASE c = " " -> 32 [] c = "(" -> 40 [] c = ")" -> 41 [] c = "*" -> 42
      [] c = "-" -> 45 [] c = "." -> 46 [] c = "/" -> 47
      [] c = "0" -> 48 [] c = "1" -> 49 [] c = "2" -> 50 [] c = "3" -> 51
      [] c = "4" -> 52 [] c = "5" -> 53 [] c = "6" -> 54 [] c = "7" -> 55
      [] c = "8" -> 56 [] c = "9" -> 57 [] c = "?" -> 63
      [] c = "A" -> 65 [] c = "B" -> 66 [] c = "F" -> 70 [] c = "G" -> 71
      [] c = "N" -> 78 [] c = "T" -> 84 [] c = "[" -> 91 [] c = "\\" -> 92
      [] c = "]" -> 93
      [] c = "a" -> 97 [] c = "b" -> 98 [] c = "e" -> 101 [] c = "f" -> 102
      [] c = "g" -> 103 [] c = "i" -> 105 [] c = "l" -> 108 [] c = "n" -> 110
      [] c = "o" -> 111 [] c = "r" -> 114 [] c = "s" -> 115 [] c = "t" -> 116
      [] c = "u" -> 117 [] c = "x" -> 120
      [] c = "z" -> 122

\* str.lower() / str.upper() on one character
Lower(c) == CASE c = "A" -> "a" [] c = "B" -> "b" [] c = "F" -> "f" [] c = "G" -> "g"
              [] c = "N" -> "n" [] c = "T" -> "t" [] OTHER -> c

Upper(c) == CASE c = "a" -> "A" [] c = "b" -> "B" [] c = "f" -> "F" [] c = "g" -> "G"
              [] c = "n" -> "N" [] c = "t" -> "T" [] OTHER -> c

UpperStr(s) == [i \in 1..Len(s) |-> Upper(s[i])]

\* character equality under the flags of re.compile (0 or re.IGNORECASE)
CharEq(ic, a, b) == a = b \/ (ic /\ Lower(a) = Lower(b))

-----------------------------------------------------------------------------
\* fnmatch.translate, fn_to_regex, merge_regexes and re.search.
\* A regex is a sequence of tokens; a merged regex is a sequence of
\* alternatives.  Tokens: lit c, any (.), star (.*), sep ([\\/]), class, end (\Z).

Tok(t, c, neg, items) == [t |-> t, c |-> c, neg |-> neg, items |-> items]
TLit(c)  == Tok("lit", c, FALSE, <<>>)
TAny     == Tok("any", "", FALSE, <<>>)
TStar    == Tok("star", "", FALSE, <<>>)
TSep     == Tok("sep", "", FALSE, <<>>)
TEnd     == Tok("end", "", FALSE, <<>>)
TClass(neg, items) == Tok("class", "", neg, items)

\* index of the "]" that closes the class opened just before position i, 0 if none
\* (a "]" right after "[" or "[!" is an ordinary member)
ClassEnd(pat, i) ==
    LET j0 == IF i <= Len(pat) /\ pat[i] = "!" THEN i + 1 ELSE i
        j1 == IF j0 <= Len(pat) /\ pat[j0] = "]" THEN j0 + 1 ELSE j0
        closers == {j \in j1..Len(pat) : pat[j] = "]"}
    IN  IF closers = {} THEN 0 ELSE CHOOSE j \in closers : \A k \in closers : j <= k

RECURSIVE TranslateFrom(_, _)
TranslateFrom(pat, i) ==
    IF i > Len(pat) THEN <<>>
    ELSE LET c == pat[i] IN
         CASE c = "*" -> <<TStar>> \o TranslateFrom(pat, i + 1)
           [] c = "?" -> <<TAny>> \o TranslateFrom(pat, i + 1)
           [] c = "[" ->
                LET j == ClassEnd(pat, i + 1) IN
                IF j = 0 THEN <<TLit("[")>> \o TranslateFrom(pat, i + 1)
                ELSE LET stuff == SubSeq(pat, i + 1, j - 1)
                         neg == stuff[1] = "!"
                         items == IF neg THEN Tail(stuff) ELSE stuff
                     IN  <<TClass(neg, items)>> \o TranslateFrom(pat, j + 1)
           [] OTHER -> <<TLit(c)>> \o TranslateFrom(pat, i + 1)

\* fnmatch.translate(pat): the translated pattern followed by \Z
translate(pat) == Append(TranslateFrom(pat, 1), TEnd)

\* .replace("/", r"[\\/]").replace(r"\Z", "")
fn_to_regex(fn) ==
    LET t == translate(fn)
        kept == SelectSeq(t, LAMBDA k : k.t # "end")
    IN  [i \in 1..Len(kept) |->
            IF kept[i].t = "lit" /\ kept[i].c = "/" THEN TSep ELSE kept[i]]

\* "(?:" + ")|(?:".join(regexes) + ")": one alternative per regex; joining no
\* regex at all leaves "(?:)", a single alternative that is the empty regex
JoinAlternatives(regexes) == IF regexes = <<>> THEN << <<>> >> ELSE regexes

\* return "" if merged == "(?:)" else merged: "" is the empty regex as well
merge_regexes(regexes) ==
    LET merged == JoinAlternatives(regexes)
    IN  IF merged = << <<>> >> THEN << <<>> >> ELSE merged

\* the members x and ranges x-y of a character class
RECURSIVE ClassHas(_, _, _, _)
ClassHas(ic, items, i, ch) ==
    IF i > Len(items) THEN FALSE
    ELSE IF i + 2 <= Len(items) /\ items[i + 1] = "-"
         THEN \/ Ord(items[i]) <= Ord(ch) /\ Ord(ch) <= Ord(items[i + 2])
              \/ ic /\ Ord(items[i]) <= Ord(Lower(ch)) /\ Ord(Lower(ch)) <= Ord(items[i + 2])
              \/ ic /\ Ord(items[i]) <= Ord(Upper(ch)) /\ Ord(Upper(ch)) <= Ord(items[i + 2])
              \/ ClassHas(ic, items, i + 3, ch)
         ELSE CharEq(ic, items[i], ch) \/ ClassHas(ic, items, i + 1, ch)

\* re.compile raises re.error "bad character range" for a range x-y with x > y
RECURSIVE ClassBad(_, _)
ClassBad(items, i) ==
    IF i > Len(items) THEN FALSE
    ELSE IF i + 2 <= Len(items) /\ items[i + 1] = "-"
         THEN Ord(items[i]) > Ord(items[i + 2]) \/ ClassBad(items, i + 3)
         ELSE ClassBad(items, i + 1)

RegexBad(r) == \E k \in 1..Len(r) : r[k].t = "class" /\ ClassBad(r[k].items, 1)

\* whether tokens k.. of r match s starting after position i (no end anchor
\* unless the regex has one)
RECURSIVE MatchAt(_, _, _, _, _)
MatchAt(ic, r, k, s, i) ==
    IF k > Len(r) THEN TRUE
    ELSE LET tk == r[k] IN
         CASE tk.t = "lit"   -> i < Len(s) /\ CharEq(ic, tk.c, s[i + 1])
                                /\ MatchAt(ic, r, k + 1, s, i + 1)
           [] tk.t = "any"   -> i < Len(s) /\ MatchAt(ic, r, k + 1, s, i + 1)
           [] tk.t = "sep"   -> i < Len(s) /\ s[i + 1] \in {"/", "\\"}
                                /\ MatchAt(ic, r, k + 1, s, i + 1)
           [] tk.t = "class" -> i < Len(s)
                                /\ (ClassHas(ic, tk.items, 1, s[i + 1]) # tk.neg)
                                /\ MatchAt(ic, r, k + 1, s, i + 1)
           [] tk.t = "star"  -> \E j \in i..Len(s) : MatchAt(ic, r, k + 1, s, j)
           [] tk.t = "end"   -> i = Len(s) /\ MatchAt(ic, r, k + 1, s, i)

\* compiled.search(s) is not None, for a merged regex compiled with flag ic
search(ic, alts, s) ==
    \E a \in 1..Len(alts) : \E i \in 0..Len(s) : MatchAt(ic, alts[a], 1, s, i)

-----------------------------------------------------------------------------
\* Engine.extract: the priority marker and the merged tag pattern

IsDigit(c) == Ord(c) \in 48..57

\* int(priority_match.group(1)) for a match of \(([0-9]{1,2})\) that starts at
\* position i of note, -1 when the regex does not match there
MarkerAt(note, i) ==
    IF i + 3 <= Len(note) /\ note[i] = "(" /\ IsDigit(note[i + 1])
       /\ IsDigit(note[i + 2]) /\ note[i + 3] = ")"
    THEN 10 * (Ord(note[i + 1]) - 48) + (Ord(note[i + 2]) - 48)
    ELSE IF i + 2 <= Len(note) /\ note[i] = "(" /\ IsDigit(note[i + 1])
            /\ note[i + 2] = ")"
         THEN Ord(note[i + 1]) - 48
         ELSE -1

\* self.priority.search(note): the leftmost position where the regex matches
PriorityOfLast(note) ==
    LET hits == {i \in 1..Len(note) : MarkerAt(note, i) # -1}
    IN  IF hits = {} THEN 50
        ELSE MarkerAt(note, CHOOSE i \in hits : \A j \in hits : j <= i)

PriorityOf(note) ==
    LET hits == {i \in 1..Len(note) : MarkerAt(note, i) # -1}
    IN  IF hits = {} THEN 50
        ELSE MarkerAt(note, CHOOSE i \in hits : \A j \in hits : i <= j)

\* A fragment of the `patterns` setting: key is the dictionary key, and the
\* regex is the literal lit followed by the greedy run [cls]*, which is the
\* named group (?P<group>[cls]*) unless group = <<>>.  bad marks a fragment
\* re.compile rejects (an unbalanced parenthesis).
Frag(key, lit, group, cls, bad) ==
    [key |-> key, lit |-> lit, group |-> group, cls |-> cls, bad |-> bad]

InCls(ic, cls, c) == c \in cls \/ (ic /\ (Lower(c) \in cls \/ Upper(c) \in cls))

\* end of the longest run of cls characters of line that starts after position e
RECURSIVE RunEnd(_, _, _, _)
RunEnd(ic, cls, line, e) ==
    IF e < Len(line) /\ InCls(ic, cls, line[e + 1]) THEN RunEnd(ic, cls, line, e + 1) ELSE e

\* self.patterns.finditer(line) for the merged pattern (?:f1)|(?:f2)|...: the
\* non-overlapping matches from left to right, the first alternative that
\* matches at a position winning.  A match is [alt, from, to]: characters
\* from+1..to of the line; the group of alternative alt captured from+2..to.
\* The merged pattern of no fragment is "", which matches the empty string at
\* every position (alt = 0).
RECURSIVE FindIterFrom(_, _, _, _)
FindIterFrom(ic, frags, line, i) ==
    IF frags = <<>>
    THEN [k \in 1..(Len(line) + 1 - i) |-> [alt |-> 0, from |-> i + k - 1, to |-> i + k - 1]]
    ELSE IF i >= Len(line) THEN <<>>
    ELSE LET alts == {k \in 1..Len(frags) : CharEq(ic, frags[k].lit, line[i + 1])} IN
         IF alts = {} THEN FindIterFrom(ic, frags, line, i + 1)
         ELSE LET k == CHOOSE a \in alts : \A b \in alts : a <= b
                  e == RunEnd(ic, frags[k].cls, line, i + 1)
              IN  <<[alt |-> k, from |-> i, to |-> e]>> \o FindIterFrom(ic, frags, line, e)

finditer(ic, frags, line) == FindIterFrom(ic, frags, line, 0)

\* result.groupdict().items(): every named group of the merged pattern, in
\* the order of definition, with the text it captured or None
NoneNote == <<"<None>">>

groupdict(frags, line, m) ==
    LET named == SelectSeq([k \in 1..Len(frags) |-> k], LAMBDA k : frags[k].group # <<>>)
    IN  [j \in 1..Len(named) |->
            [patt |-> frags[named[j]].group,
             note |-> IF named[j] = m.alt THEN SubSeq(line, m.from + 2, m.to)
                      ELSE NoneNote]]

Finding(p, patt, note, num, priority) ==
    [file |-> p, patt |-> patt, note |-> note, line |-> num, priority |-> priority]

\* the findings of one match: one per group whose note is not None (the test
\* `not note and note != ""` lets the empty note through)
MatchFindingsNonEmpty(frags, p, num, line, m) ==
    LET gd == SelectSeq(groupdict(frags, line, m),
                        LAMBDA g : g.note # NoneNote /\ g.note # <<>>)
    IN  [j \in 1..Len(gd) |->
            Finding(p, gd[j].patt, gd[j].note, num, PriorityOf(gd[j].note))]

MatchFindings(frags, p, num, line, m) ==
    LET gd == SelectSeq(groupdict(frags, line, m), LAMBDA g : g.note # NoneNote)
    IN  [j \in 1..Len(gd) |->
            Finding(p, gd[j].patt, gd[j].note, num, PriorityOf(gd[j].note))]

\* the findings of line number num
LineFindings(ic, frags, p, num, line) ==
    LET ms == finditer(ic, frags, line)
    IN  Flatten([j \in 1..Len(ms) |-> MatchFindings(frags, p, num, line, ms[j])])

\* for num, line in enumerate(lines, 1): ...
ExtractLines(ic, frags, p, lines) ==
    Flatten([num \in 1..Len(lines) |-> LineFindings(ic, frags, p, num, lines[num])])

-----------------------------------------------------------------------------
\* The file system, the window and the settings the scans run against

\* /r is the project folder; /r/g holds the empty directory s; /r/l is a
\* symbolic link to the directory /r/g
RealDirs == {<<"r">>, <<"r", "g">>, <<"r", "g", "s">>}
RealFiles == {<<"r", "a">>, <<"r", "g", "b">>}
LinkPaths == {<<"r", "l">>}
LinkTarget(p) == <<"r", "g">>

NoteCls == {"n", "(", ")", "1", "2", "3", "7"}

\* the lines of the files on disk
DiskLines(p) ==
    IF p = <<"r", "a">>
    THEN << <<"T", "n">>, <<"F", "(", "7", ")", "T">> >>
    ELSE << <<"n">>, <<"t", "(", "1", "2", ")">> >>

\* window.views(): an edited buffer of /r/g/b, a buffer of /r/n (a name with
\* no file on disk) and an unnamed buffer
NoName == <<>>
View(name, lines) == [file_name |-> name, lines |-> lines]
WindowViews ==
    << View(<<"r", "g", "b">>, << <<"F", "n">> >>),
       View(<<"r", "n">>, << <<"x">>, <<"T", "(", "3", ")">> >>),
       View(NoName, << <<"T">> >>) >>

\* window.folders()
WindowFolders == << <<"r">> >>

\* os.path.abspath of an absolute path: normpath drops the "." components
abspath(p) == SelectSeq(p, LAMBDA c : c # ".")

\* os.path.realpath: every prefix that is a symbolic link is replaced by its target
RECURSIVE RealFrom(_, _)
RealFrom(done, rest) ==
    IF rest = <<>> THEN done
    ELSE LET next == Append(done, Head(rest))
         IN  RealFrom(IF next \in LinkPaths THEN LinkTarget(next) ELSE next, Tail(rest))

realpath(p) == RealFrom(<<>>, p)

isdir(p) == realpath(p) \in RealDirs
isfile(p) == realpath(p) \in RealFiles

\* the name of a path: "/" in front of every component
ToChars(p) == Flatten([i \in 1..Len(p) |-> <<"/", p[i]>>])

Names == {"r", "a", "g", "b", "l", "n", "s"}

\* os.walk(top, followlinks=True): the directories dirp it reports
RECURSIVE WalkDirs(_)
WalkDirs(top) ==
    IF ~isdir(top) THEN {}
    ELSE {top} \cup UNION {WalkDirs(Append(top, n)) :
                            n \in {m \in Names : LET c == Append(realpath(top), m)
                                                 IN  c \in RealDirs \cup LinkPaths}}

\* the filepaths os.walk reports for dirp, joined to dirp
WalkFiles(dirp) == {Append(dirp, n) : n \in {m \in Names : Append(realpath(dirp), m) \in RealFiles}}

\* Settings: the values settings.get returns for the keys the engine reads
Config(patterns, xfiles, xfolders, cs, enc, rs, inc, w) ==
    [patterns |-> patterns, exclude_files |-> xfiles, exclude_folders |-> xfolders,
     case_sensitive |-> cs, encoding |-> enc, resolve_symlinks |-> rs,
     include_paths |-> inc, patterns_weight |-> w]

NoSettings == [none |-> TRUE]

FragT == Frag(<<"T">>, "T", <<"t">>, NoteCls, FALSE)
FragF == Frag(<<"F">>, "F", <<"f">>, NoteCls, FALSE)
FragBad == Frag(<<"B">>, "(", <<"b">>, NoteCls, TRUE)

GlobG == <<"*", "/", "g", "/", "*">>
GlobA == <<"*", "/", "a">>
GlobZ == <<"*", ".", "z">>
GlobBad == <<"[", "b", "-", "a", "]">>

\* excludes the folder g; no file is excluded by name
CfgG == Config(<<FragT, FragF>>, <<GlobZ>>, <<GlobG>>, FALSE, "utf-8", TRUE, <<>>, <<>>)
\* excludes nothing that exists
CfgN == Config(<<FragT, FragF>>, <<GlobZ>>, <<GlobZ>>, FALSE, "utf-8", TRUE, <<>>, <<>>)
\* excludes files named a; case sensitive, latin-1, symbolic links not resolved
CfgA == Config(<<FragF, FragT>>, <<GlobA>>, <<GlobZ>>, TRUE, "latin-1", FALSE, <<>>, <<>>)
\* both exclude lists empty
CfgE == Config(<<FragT>>, <<>>, <<>>, FALSE, "utf-8", TRUE, <<>>, <<>>)
\* a malformed tag pattern; a malformed exclude glob
CfgBadPattern == Config(<<FragT, FragBad>>, <<GlobZ>>, <<GlobZ>>, FALSE, "utf-8", TRUE, <<>>, <<>>)
CfgBadGlob == Config(<<FragT>>, <<GlobZ, GlobBad>>, <<GlobZ>>, FALSE, "utf-8", TRUE, <<>>, <<>>)

\* the arguments of the todo_review command and the view it runs on
Args(paths, cf, of, ofo, vf, cfg) ==
    [paths |-> paths, current_file |-> cf, open_files |-> of, open_files_only |-> ofo,
     view_file |-> vf, settings |-> cfg]

ProjectRoot == << <<"r">> >>
RootAndFile == << <<"r">>, <<"r", ".", "a">> >>

\* the invocations the model draws from
Requests ==
    { Args(<<>>, FALSE, FALSE, FALSE, NoName, CfgG),
      Args(RootAndFile, FALSE, FALSE, FALSE, NoName, CfgN),
      Args(<<>>, FALSE, TRUE, FALSE, NoName, CfgN),
      Args(<<>>, FALSE, FALSE, FALSE, NoName, CfgA),
      Args(<<>>, TRUE, FALSE, FALSE, <<"r", "g", "b">>, CfgG),
      Args(<<>>, TRUE, FALSE, FALSE, NoName, CfgN),
      Args(<<>>, FALSE, FALSE, TRUE, NoName, CfgN),
      Args(<<>>, FALSE, TRUE, TRUE, NoName, CfgE),
      Args(ProjectRoot, FALSE, FALSE, FALSE, NoName, CfgE),
      Args(<<>>, FALSE, FALSE, FALSE, NoName, CfgBadPattern),
      Args(<<>>, FALSE, FALSE, FALSE, NoName, CfgBadGlob) }

-----------------------------------------------------------------------------
\* Engine

\* re.compile(match_patterns): re.error for a malformed fragment and for a
\* group name defined twice
PatternsBad(frags) ==
    \/ \E k \in 1..Len(frags) : frags[k].bad
    \/ \E j, k \in 1..Len(frags) :
          j # k /\ frags[j].group # <<>> /\ frags[j].group = frags[k].group

CompileRaisesPatternsOnly(cfg) == PatternsBad(cfg.patterns)

\* whether one of the four re.compile calls of Engine.__init__ raises
CompileRaises(cfg) ==
    \/ PatternsBad(cfg.patterns)
    \/ \E k \in 1..Len(cfg.exclude_files) : RegexBad(fn_to_regex(cfg.exclude_files[k]))
    \/ \E k \in 1..Len(cfg.exclude_folders) : RegexBad(fn_to_regex(cfg.exclude_folders[k]))

\* map(fn_to_regex, globs)
RegexesOf(globs) == [i \in 1..Len(globs) |-> fn_to_regex(globs[i])]

\* [v.file_name() for v in views if v.file_name()]
FileNames(views) ==
    LET named == SelectSeq(views, LAMBDA v : v.file_name # NoName)
    IN  [i \in 1..Len(named) |-> named[i].file_name]

NoEngine == [none |-> TRUE]

\* Engine.__init__(dirpaths, filepaths, view) under the global settings cfg
EngineInit(dirpaths, filepaths, cfg) ==
    [dirpaths |-> dirpaths,
     filepaths |-> Range(filepaths),
     ic |-> ~cfg.case_sensitive,
     patterns |-> cfg.patterns,
     exclude_files |-> merge_regexes(RegexesOf(cfg.exclude_files)),
     exclude_folders |-> merge_regexes(RegexesOf(cfg.exclude_folders)),
     open |-> WindowViews,
     open_files |-> FileNames(WindowViews),
     encoding |-> ""]

\* Engine.resolve under the global settings g
resolve(g, p) == IF g.resolve_symlinks THEN realpath(abspath(p)) ELSE abspath(p)

\* the directories os.walk reports for the roots: `continue` skips the files
\* of an excluded directory and leaves the list of its subdirectories as it
\* is, so os.walk goes on below it
WalkedDirs(g, e) == UNION {WalkDirs(resolve(g, e.dirpaths[k])) : k \in 1..Len(e.dirpaths)}

\* the first loop of Engine.files: what the walk of the roots adds to self.filepaths
Walked(g, e) ==
    UNION {UNION {WalkFiles(dirp) :
                    dirp \in {d \in WalkDirs(resolve(g, e.dirpaths[k])) :
                                ~search(e.ic, e.exclude_folders, ToChars(d) \o <<"/">>)}}
           : k \in 1..Len(e.dirpaths)}

\* the three tests of the second loop of Engine.files on a resolved path
SkippedNoFolderTest(e, seenPaths, filepath) ==
    \/ filepath \in seenPaths
    \/ search(e.ic, e.exclude_files, ToChars(filepath))

SkippedNoSeenTest(e, seenPaths, filepath) ==
    \/ search(e.ic, e.exclude_folders, ToChars(filepath))
    \/ search(e.ic, e.exclude_files, ToChars(filepath))

Skipped(e, seenPaths, filepath) ==
    \/ filepath \in seenPaths
    \/ search(e.ic, e.exclude_folders, ToChars(filepath))
    \/ search(e.ic, e.exclude_files, ToChars(filepath))

\* the first view of self.open whose file_name is p
ViewOf(e, p) ==
    LET hits == {k \in 1..Len(e.open) : e.open[k].file_name = p}
    IN  e.open[CHOOSE k \in hits : \A j \in hits : k <= j]

\* whether extract takes the lines of p from a view
FromViewNever(e, p) == FALSE

FromView(e, p) == p \in Range(e.open_files)

\* open(p, encoding=encoding) and f.readlines()
OpenRaises(unreadable, p) == realpath(p) \notin RealFiles \/ realpath(p) \in unreadable
DecodeRaises(undecodable, enc, p) == realpath(p) \in undecodable /\ enc = "utf-8"

\* the findings extract yields for p: none when open or readlines raises
FileFindings(e, unreadable, undecodable, p) ==
    IF FromView(e, p) THEN ExtractLines(e.ic, e.patterns, p, ViewOf(e, p).lines)
    ELSE IF OpenRaises(unreadable, p) \/ DecodeRaises(undecodable, e.encoding, p) THEN <<>>
    ELSE ExtractLines(e.ic, e.patterns, p, DiskLines(realpath(p)))

-----------------------------------------------------------------------------
\* TodoReviewCommand.run

\* the paths and filepaths run hands to Engine
RunPaths(a) ==
    IF a.current_file THEN <<>>
    ELSE LET paths == IF a.paths = <<>> /\ a.settings.include_paths # <<>>
                      THEN a.settings.include_paths ELSE a.paths
         IN  IF a.open_files_only THEN <<>>
             ELSE IF paths = <<>> THEN WindowFolders ELSE paths

RunFilepaths(a) ==
    IF a.current_file THEN <<a.view_file>>
    ELSE LET paths == IF a.paths = <<>> /\ a.settings.include_paths # <<>>
                      THEN a.settings.include_paths ELSE a.paths
             fromViews == IF a.open_files
                          THEN FileNames(WindowViews)
                          ELSE <<>>
         IN  IF a.open_files_only \/ paths = <<>> THEN fromViews
             ELSE fromViews \o SelectSeq(paths, isfile)

\* the os.path.isfile(p) calls run makes itself: one per element of a
\* non-empty paths list, unless current_file or open_files_only is given
RunFsCalls(a) ==
    IF a.current_file \/ a.open_files_only THEN {}
    ELSE LET paths == IF a.paths = <<>> /\ a.settings.include_paths # <<>>
                      THEN a.settings.include_paths ELSE a.paths
         IN  {<<"isfile", paths[k]>> : k \in 1..Len(paths)}

Runs == 1..MaxRuns

NoReq == [none |-> TRUE]

\* run(edit, **args): sets the global settings; returns early for an unsaved
\* current file; Engine(...) may raise; otherwise creates and starts the Thread
Run(a) ==
    /\ nRuns < MaxRuns
    /\ LET n == nRuns + 1 IN
       /\ nRuns' = n
       /\ req' = [req EXCEPT ![n] = a]
       /\ settings' = a.settings
       /\ fsMain' = [fsMain EXCEPT ![n] = RunFsCalls(a)]
       /\ IF a.current_file /\ a.view_file = NoName
          THEN /\ pc' = [pc EXCEPT ![n] = "returned"]
               /\ UNCHANGED <<thread, engine>>
          ELSE IF CompileRaises(a.settings)
          THEN /\ pc' = [pc EXCEPT ![n] = "raised"]
               /\ UNCHANGED <<thread, engine>>
          ELSE /\ engine' = [engine EXCEPT ![n] = EngineInit(RunPaths(a), RunFilepaths(a), a.settings)]
               /\ thread' = n
               /\ pc' = [pc EXCEPT ![n] = "started"]
    /\ UNCHANGED <<todo, seen, cur, yielded, visited, results, count, incs, delivered,
                   opened, fsUnreadable, fsUndecodable, walked, pending, lockVars,
                   published, inp, out, report>>

-----------------------------------------------------------------------------
\* The worker: Thread.run -> Thread.thread -> list(engine.process())

\* the first next() of extract(files()): extract reads the encoding, files()
\* walks the roots and adds what it finds to self.filepaths
Walk(n) ==
    /\ pc[n] = "started"
    /\ LET e == [engine[n] EXCEPT !.encoding = settings.encoding,
                                  !.filepaths = @ \cup Walked(settings, engine[n])]
       IN  /\ engine' = [engine EXCEPT ![n] = e]
           /\ todo' = [todo EXCEPT ![n] = e.filepaths]
    /\ walked' = [walked EXCEPT ![n] = WalkedDirs(settings, engine[n])]
    /\ pc' = [pc EXCEPT ![n] = "enum"]
    /\ UNCHANGED <<settings, thread, nRuns, req, seen, cur, yielded, visited, results,
                   count, incs, delivered, opened, fsUnreadable, fsUndecodable,
                   fsMain, pending, lockVars, published, inp, out, report>>

\* one iteration of `for filepath in self.filepaths` (a set: any order)
NextPath(n) ==
    /\ pc[n] = "enum"
    /\ \E c \in todo[n] :
         LET filepath == resolve(settings, c) IN
         /\ todo' = [todo EXCEPT ![n] = @ \ {c}]
         /\ visited' = [visited EXCEPT ![n] = @ \cup {<<c, filepath>>}]
         /\ IF Skipped(engine[n], seen[n], filepath)
            THEN UNCHANGED <<seen, yielded, cur, pc>>
            ELSE /\ seen' = [seen EXCEPT ![n] = @ \cup {filepath}]
                 /\ yielded' = [yielded EXCEPT ![n] = Append(@, filepath)]
                 /\ cur' = [cur EXCEPT ![n] = filepath]
                 /\ pc' = [pc EXCEPT ![n] = "extract"]
    /\ UNCHANGED <<settings, thread, nRuns, req, engine, results, count, incs, delivered,
                   opened, fsUnreadable, fsUndecodable, walked, fsMain, pending, lockVars,
                   published, inp, out, report>>

\* the try block of extract for the path p = cur[n]
Extract(n) ==
    /\ pc[n] = "extract"
    /\ results' = [results EXCEPT ![n] =
                      @ \o FileFindings(engine[n], fsUnreadable, fsUndecodable, cur[n])]
    /\ opened' = [opened EXCEPT ![n] =
                      IF FromView(engine[n], cur[n]) THEN @ ELSE @ \cup {cur[n]}]
    /\ pc' = [pc EXCEPT ![n] = "finally"]
    /\ UNCHANGED <<settings, thread, nRuns, req, engine, todo, seen, cur, yielded, visited,
                   count, incs, delivered, fsUnreadable, fsUndecodable, walked, fsMain, pending,
                   lockVars, published, inp, out, report>>

\* whether the try block of extract raised OSError or UnicodeDecodeError for p
Raised(e, unreadable, undecodable, p) ==
    ~FromView(e, p) /\ (OpenRaises(unreadable, p) \/ DecodeRaises(undecodable, e.encoding, p))

\* thread.increment() stands in the finally clause: it runs whether or not
\* the try block raised
IncrementsOnSuccessOnly(raised) == ~raised

FinallyIncrements(raised) == TRUE

\* the Thread whose increment() the finally clause calls: the global `thread`
IncrementTarget(n, g) == g

\* finally: thread.increment() as one step: self.i += 1 and the status
\* message, under the lock of the Thread
Increment(n) ==
    /\ pc[n] = "finally"
    /\ LET t == IncrementTarget(n, thread)
           hit == FinallyIncrements(Raised(engine[n], fsUnreadable, fsUndecodable, cur[n]))
       IN  /\ count' = [k \in Runs |-> IF k = t /\ hit THEN count[k] + 1 ELSE count[k]]
           /\ incs' = [incs EXCEPT ![n] = IF hit THEN @ + 1 ELSE @]
           /\ published' = [k \in Runs |-> IF k = t /\ hit
                                            THEN Append(published[k], count[k] + 1)
                                            ELSE published[k]]
    /\ pc' = [pc EXCEPT ![n] = "enum"]
    /\ UNCHANGED <<settings, thread, nRuns, req, engine, todo, seen, cur, yielded, visited,
                   results, delivered, opened, fsUnreadable, fsUndecodable, walked,
                   fsMain, pending, lockVars, inp, out, report>>

\* The same call step by step (specification SpecLock).

\* threading.RLock: acquire succeeds when the lock is free or the caller's own
AcquiresUnlocked(owner, n) == TRUE

Acquires(owner, n) == owner \in {0, n}

\* thread.increment(): the global `thread` is looked up and the method called
Call(n) ==
    /\ pc[n] = "finally"
    /\ target' = [target EXCEPT ![n] = IncrementTarget(n, thread)]
    /\ pc' = [pc EXCEPT ![n] = "acquire"]
    /\ UNCHANGED <<settings, thread, nRuns, req, engine, todo, seen, cur, yielded, visited,
                   results, count, incs, delivered, opened, fsUnreadable, fsUndecodable,
                   walked, fsMain, pending, lock, loaded, published, inp, out, report>>

\* with self.lock: blocks until the lock can be acquired
Acquire(n) ==
    /\ pc[n] = "acquire"
    /\ Acquires(lock[target[n]], n)
    /\ lock' = [lock EXCEPT ![target[n]] = n]
    /\ pc' = [pc EXCEPT ![n] = "load"]
    /\ UNCHANGED <<settings, thread, nRuns, req, engine, todo, seen, cur, yielded, visited,
                   results, count, incs, delivered, opened, fsUnreadable, fsUndecodable,
                   walked, fsMain, pending, target, loaded, published, inp, out, report>>

\* self.i += 1: the read of self.i
Load(n) ==
    /\ pc[n] = "load"
    /\ loaded' = [loaded EXCEPT ![n] = count[target[n]]]
    /\ pc' = [pc EXCEPT ![n] = "store"]
    /\ UNCHANGED <<settings, thread, nRuns, req, engine, todo, seen, cur, yielded, visited,
                   results, count, incs, delivered, opened, fsUnreadable, fsUndecodable,
                   walked, fsMain, pending, lock, target, published, inp, out, report>>

\* self.i += 1: the write of self.i
Store(n) ==
    /\ pc[n] = "store"
    /\ count' = [count EXCEPT ![target[n]] = loaded[n] + 1]
    /\ pc' = [pc EXCEPT ![n] = "publish"]
    /\ UNCHANGED <<settings, thread, nRuns, req, engine, todo, seen, cur, yielded, visited,
                   results, incs, delivered, opened, fsUnreadable, fsUndecodable,
                   walked, fsMain, pending, lockVars, published, inp, out, report>>

\* sublime.status_message(f"TodoReview: {self.i} files scanned")
Publish(n) ==
    /\ pc[n] = "publish"
    /\ published' = [published EXCEPT ![target[n]] = Append(@, count[target[n]])]
    /\ pc' = [pc EXCEPT ![n] = "release"]
    /\ UNCHANGED <<settings, thread, nRuns, req, engine, todo, seen, cur, yielded, visited,
                   results, count, incs, delivered, opened, fsUnreadable, fsUndecodable,
                   walked, fsMain, pending, lockVars, inp, out, report>>

\* the end of the with block releases the lock; increment() returns
Release(n) ==
    /\ pc[n] = "release"
    /\ lock' = [lock EXCEPT ![target[n]] = 0]
    /\ incs' = [incs EXCEPT ![n] = @ + 1]
    /\ pc' = [pc EXCEPT ![n] = "enum"]
    /\ UNCHANGED <<settings, thread, nRuns, req, engine, todo, seen, cur, yielded, visited,
                   results, count, delivered, opened, fsUnreadable, fsUndecodable,
                   walked, fsMain, pending, target, loaded, published, inp, out, report>>

\* files() is exhausted: self.callback(results, self.finish(), self.i)
Finish(n) ==
    /\ pc[n] = "enum"
    /\ todo[n] = {}
    /\ delivered' = [delivered EXCEPT ![n] = Append(@, <<results[n], count[n]>>)]
    /\ pc' = [pc EXCEPT ![n] = "done"]
    /\ UNCHANGED <<settings, thread, nRuns, req, engine, todo, seen, cur, yielded, visited,
                   results, count, incs, opened, fsUnreadable, fsUndecodable, walked,
                   fsMain, pending, lockVars, published, inp, out, report>>

\* the result of a function that was not applied yet
Unset == [set |-> FALSE, val |-> <<>>]
Result(v) == [set |-> TRUE, val |-> v]

\* the settings of the report view before anything was drawn in it:
\* review_results empty, selected_result absent
NoViewSettings == [review_results |-> <<>>, selected_result |-> Unset]

\* no navigation command has run since the report was drawn
NoCommand == [direction |-> "none", settings |-> NoViewSettings, selection |-> <<>>]

\* the report view before anything was drawn in it
NoReport ==
    [results |-> <<>>, settings |-> NoViewSettings, selection |-> <<>>, last |-> NoCommand]

ScanInit ==
    /\ settings = NoSettings
    /\ thread = 0
    /\ nRuns = 0
    /\ req = [n \in Runs |-> NoReq]
    /\ pc = [n \in Runs |-> "idle"]
    /\ engine = [n \in Runs |-> NoEngine]
    /\ todo = [n \in Runs |-> {}]
    /\ seen = [n \in Runs |-> {}]
    /\ cur = [n \in Runs |-> <<>>]
    /\ yielded = [n \in Runs |-> <<>>]
    /\ visited = [n \in Runs |-> {}]
    /\ results = [n \in Runs |-> <<>>]
    /\ count = [n \in Runs |-> 0]
    /\ incs = [n \in Runs |-> 0]
    /\ delivered = [n \in Runs |-> <<>>]
    /\ opened = [n \in Runs |-> {}]
    /\ walked = [n \in Runs |-> {}]
    /\ fsMain = [n \in Runs |-> {}]
    /\ pending = {}
    /\ lock = [t \in Runs |-> 0]
    /\ target = [n \in Runs |-> 0]
    /\ loaded = [n \in Runs |-> 0]
    /\ published = [t \in Runs |-> <<>>]
    /\ report = NoReport

Init ==
    /\ ScanInit
    /\ \E bad \in {b \in SUBSET RealFiles : Cardinality(b) <= 1} :
          \/ fsUnreadable = bad /\ fsUndecodable = {}
          \/ fsUnreadable = {} /\ fsUndecodable = bad
    /\ inp = <<>>
    /\ out = Unset

Next ==
    \/ \E a \in Requests : Run(a)
    \/ \E n \in Runs : Walk(n)
    \/ \E n \in Runs : NextPath(n)
    \/ \E n \in Runs : Extract(n)
    \/ \E n \in Runs : Increment(n)
    \/ \E n \in Runs : Finish(n)

Spec == Init /\ [][Next]_vars

\* Overlapping scans of the open files, with increment() taken step by step
LockRequests == { Args(<<>>, FALSE, TRUE, TRUE, NoName, CfgN) }

InitLock ==
    /\ ScanInit
    /\ fsUnreadable = {} /\ fsUndecodable = {}
    /\ inp = <<>>
    /\ out = Unset

NextLock ==
    \/ \E a \in LockRequests : Run(a)
    \/ \E n \in Runs : Walk(n)
    \/ \E n \in Runs : NextPath(n)
    \/ \E n \in Runs : Extract(n)
    \/ \E n \in Runs : Call(n)
    \/ \E n \in Runs : Acquire(n)
    \/ \E n \in Runs : Load(n)
    \/ \E n \in Runs : Store(n)
    \/ \E n \in Runs : Publish(n)
    \/ \E n \in Runs : Release(n)
    \/ \E n \in Runs : Finish(n)

SpecLock == InitLock /\ [][NextLock]_vars

-----------------------------------------------------------------------------
\* Properties of the scan (specification Spec)

Started(n) == pc[n] \notin {"idle", "returned", "raised"}

ViewNames == {WindowViews[k].file_name : k \in 1..Len(WindowViews)} \ {NoName}

BufferOf(p) == (CHOOSE v \in Range(WindowViews) : v.file_name = p).lines

\* a yielded path whose content the worker of invocation n can read
Readable(n, p) ==
    \/ p \in ViewNames
    \/ /\ realpath(p) \in RealFiles \ fsUnreadable
       /\ ~(realpath(p) \in fsUndecodable /\ req[n].settings.encoding = "utf-8")

\* the findings the content of p holds under the settings of invocation n
ContentFindings(n, p) ==
    ExtractLines(~req[n].settings.case_sensitive, req[n].settings.patterns, p,
                 IF p \in ViewNames THEN BufferOf(p) ELSE DiskLines(realpath(p)))

\* the findings of results that belong to the file p
OfFile(rs, p) == SelectSeq(rs, LAMBDA f : f.file = p)

\* C1: when a single scan is run, its callback receives a scanned-file count
\* equal to the number of paths files() yielded, failed paths included, and
\* the findings of every readable path.
C1_CountEqualsYielded ==
    (nRuns = 1 /\ pc[1] = "done") =>
        /\ Len(delivered[1]) = 1
        /\ delivered[1][1][2] = Len(yielded[1])
        /\ \A j \in 1..Len(yielded[1]) :
              Readable(1, yielded[1][j]) =>
                 OfFile(delivered[1][1][1], yielded[1][j]) = ContentFindings(1, yielded[1][j])

\* three paths scanned, exactly one of them unreadable, findings of the other two delivered
C1_Witness ==
    /\ nRuns = 1 /\ pc[1] = "done"
    /\ Len(yielded[1]) = 3
    /\ delivered[1][1][2] = 3
    /\ Cardinality({j \in 1..3 : ~Readable(1, yielded[1][j])}) = 1
    /\ Cardinality({f.file : f \in Range(delivered[1][1][1])}) = 2

\* C2: every started scan calls its callback exactly once, after files() is
\* exhausted and after all its increments; a scan with no file to scan
\* delivers no finding and a count of 0.
C2_CallbackOnceAfterAll ==
    \A n \in Runs :
        /\ Len(delivered[n]) <= 1
        /\ (Started(n) /\ pc[n] = "done") => Len(delivered[n]) = 1
        /\ Len(delivered[n]) = 1 =>
              /\ pc[n] = "done" /\ todo[n] = {}
              /\ incs[n] = Len(yielded[n])
              /\ yielded[n] = <<>> => delivered[n][1] = << <<>>, 0 >>

\* the part of C2 that holds when scans overlap: one callback per scan, after
\* the enumeration is exhausted and all increments of the scan are made
CallbackOncePerScan ==
    \A n \in Runs :
        /\ Len(delivered[n]) <= 1
        /\ (Started(n) /\ pc[n] = "done") => Len(delivered[n]) = 1
        /\ Len(delivered[n]) = 1 =>
              /\ pc[n] = "done" /\ todo[n] = {}
              /\ incs[n] = Len(yielded[n])
              /\ yielded[n] = <<>> => delivered[n][1][1] = <<>>

C4_NoExcludedPath ==
    \A n \in Runs : \A j \in 1..Len(yielded[n]) :
        LET p == yielded[n][j] IN
        /\ ~search(engine[n].ic, engine[n].exclude_folders, ToChars(p))
        /\ ~search(engine[n].ic, engine[n].exclude_files, ToChars(p))
        /\ \A k \in 1..(Len(p) - 1) :
              ~search(engine[n].ic, engine[n].exclude_folders,
                      ToChars(SubSeq(p, 1, k)) \o <<"/">>)

\* an explicit file under an excluded folder was visited and not yielded
C4_Witness ==
    \E n \in Runs : \E v \in visited[n] :
        /\ pc[n] = "done"
        /\ v[1] \in Range(RunFilepaths(req[n]))
        /\ \E k \in 1..(Len(v[2]) - 1) :
              search(engine[n].ic, engine[n].exclude_folders,
                     ToChars(SubSeq(v[2], 1, k)) \o <<"/">>)
        /\ v[2] \notin Range(yielded[n])

\* C5: the matcher compiled from an empty exclude list matches no path, and
\* with both lists empty every candidate is yielded.
C5_EmptyListExcludesNothing ==
    \A n \in Runs : Started(n) =>
        /\ req[n].settings.exclude_folders = <<>> =>
              \A v \in visited[n] :
                 ~search(engine[n].ic, engine[n].exclude_folders, ToChars(v[2]))
        /\ req[n].settings.exclude_files = <<>> =>
              \A v \in visited[n] :
                 ~search(engine[n].ic, engine[n].exclude_files, ToChars(v[2]))
        /\ (req[n].settings.exclude_folders = <<>> /\ req[n].settings.exclude_files = <<>>) =>
              \A v \in visited[n] : v[2] \in Range(yielded[n])

\* C6: a yielded path that is the file name of an open view is never opened
\* on disk, and its findings are those of the lines of the view.
C6_OpenBufferWins ==
    \A n \in Runs : \A j \in 1..Len(yielded[n]) :
        LET p == yielded[n][j] IN
        p \in ViewNames =>
            /\ p \notin opened[n]
            /\ ~(pc[n] = "extract" /\ cur[n] = p) =>
                  OfFile(results[n], p) =
                     ExtractLines(engine[n].ic, engine[n].patterns, p, BufferOf(p))

\* a scan took the findings of a path from its view although the file on disk
\* differs, and those of a path that has no file on disk
C6_Witness ==
    \E n \in Runs : \E p, q \in Range(yielded[n]) :
        /\ pc[n] = "done"
        /\ p \in ViewNames /\ realpath(p) \in RealFiles
        /\ DiskLines(realpath(p)) # BufferOf(p)
        /\ OfFile(delivered[n][1][1], p) # <<>>
        /\ q \in ViewNames /\ realpath(q) \notin RealFiles
        /\ OfFile(delivered[n][1][1], q) # <<>>

\* a configuration one of whose tag patterns or exclude globs does not compile
Malformed(cfg) ==
    \/ FragBad \in Range(cfg.patterns)
    \/ GlobBad \in Range(cfg.exclude_files) \cup Range(cfg.exclude_folders)

\* C10: when a tag pattern or an exclude glob does not compile, run raises
\* while it constructs the Engine: no Thread is created, nothing is scanned
\* and the callback is not called.
C10_ConfigErrorStartsNothing ==
    \A n \in Runs : (pc[n] # "idle" /\ Malformed(req[n].settings)) =>
        /\ pc[n] = "raised"
        /\ engine[n] = NoEngine
        /\ thread # n
        /\ visited[n] = {} /\ yielded[n] = <<>> /\ opened[n] = {}
        /\ incs[n] = 0
        /\ delivered[n] = <<>>

\* an invocation with a malformed exclude glob raised, and so did one with a
\* malformed tag pattern
C10_Witness ==
    \E m, n \in Runs :
        /\ pc[m] = "raised" /\ GlobBad \in Range(req[m].settings.exclude_files)
        /\ pc[n] = "raised" /\ FragBad \in Range(req[n].settings.patterns)

\* C11: under every configuration, resolve_symlinks = false included, no two
\* paths files() yields denote the same canonical file.
C11_NoCanonicalDuplicates ==
    \A n \in Runs : \A i, j \in 1..Len(yielded[n]) :
        i # j => realpath(yielded[n][i]) # realpath(yielded[n][j])

\* C13: when scans overlap, the callback of each scan still receives the
\* number of paths that scan itself attempted; no increment made for a file
\* of one scan is added to the counter of another.
C13_CountIsOwnAttempts ==
    \A n \in Runs :
        /\ count[n] <= incs[n]
        /\ Len(delivered[n]) = 1 => delivered[n][1][2] = Len(yielded[n])

\* C14: a running scan uses for every file the configuration it was started
\* with: its encoding and its resolve_symlinks, also when a later invocation
\* has installed another configuration.
C14_OwnConfiguration ==
    \A n \in Runs :
        /\ pc[n] \in {"enum", "extract", "finally", "done"} =>
              engine[n].encoding = req[n].settings.encoding
        /\ \A v \in visited[n] : v[2] = resolve(req[n].settings, v[1])

RECURSIVE SumTo(_, _)
SumTo(f, k) == IF k = 0 THEN 0 ELSE f[k] + SumTo(f, k - 1)

\* the positions of a worker inside the with block of Thread.increment
InsideIncrement == {"load", "store", "publish", "release"}

\* C15: at most one worker is inside increment() of a Thread at a time, no
\* increment is lost, and the numbers a Thread shows are 1, 2, 3, ... in this
\* order, also while two workers run.
C15_IncrementsExclusive ==
    /\ \A m, n \in Runs :
          (m # n /\ pc[m] \in InsideIncrement /\ pc[n] \in InsideIncrement)
             => target[m] # target[n]
    /\ \A t \in Runs :
          /\ \A i \in 1..Len(published[t]) : published[t][i] = i
          /\ count[t] \in {Len(published[t]), Len(published[t]) + 1}
          /\ count[t] = Len(published[t]) + 1 =>
                \E n \in Runs : target[n] = t /\ pc[n] = "publish"
    /\ SumTo(count, MaxRuns) =
          SumTo(incs, MaxRuns) + Cardinality({n \in Runs : pc[n] \in {"publish", "release"}})

\* a worker waited for the lock of the Thread another worker was incrementing,
\* after both workers had incremented that Thread before
C15_Witness ==
    \E m, n \in Runs :
        /\ m # n /\ target[m] = target[n]
        /\ pc[m] = "acquire" /\ pc[n] = "store"
        /\ lock[target[n]] = n
        /\ incs[m] >= 1 /\ incs[n] >= 1
        /\ count[target[n]] >= 2

\* whether the exclude-folder matcher of scan n matches the directory d with
\* a separator appended
ExcludedDir(n, d) == search(engine[n].ic, engine[n].exclude_folders, ToChars(d) \o <<"/">>)

\* the candidates the walk of scan n added to self.filepaths
Collected(n) == engine[n].filepaths \ Range(RunFilepaths(req[n]))

\* C18: a directory the exclude-folder matcher matches during the walk is
\* pruned: os.walk reports no directory below it, and no file in it or below
\* it becomes a candidate.
C18_ExcludedSubtreePruned ==
    \A n \in Runs : pc[n] \in {"enum", "extract", "finally", "done"} =>
        /\ \A d \in walked[n] : \A k \in 1..(Len(d) - 1) :
              ~(SubSeq(d, 1, k) \in walked[n] /\ ExcludedDir(n, SubSeq(d, 1, k)))
        /\ \A c \in Collected(n) : \A k \in 1..(Len(c) - 1) :
              ~(SubSeq(c, 1, k) \in walked[n] /\ ExcludedDir(n, SubSeq(c, 1, k)))

\* the part that holds: no file in or below an excluded directory is collected
NothingCollectedBelowExcluded ==
    \A n \in Runs : pc[n] \in {"enum", "extract", "finally", "done"} =>
        \A c \in Collected(n) : \A k \in 1..(Len(c) - 1) :
            ~(SubSeq(c, 1, k) \in walked[n] /\ ExcludedDir(n, SubSeq(c, 1, k)))

\* C20: run() makes no file-system call itself, whatever its arguments are;
\* the traversal, the path resolution, the file-type tests and the reads are
\* all made by the worker.
C20_NoFileSystemCallInRun ==
    \A n \in Runs : fsMain[n] = {}

-----------------------------------------------------------------------------
\* The priority of a finding (specification SpecPriority): extract applied
\* to one line, the tag character followed by a note

NoteChars == {"(", ")", "1", "2", "n"}
FragP == Frag(<<"T">>, "T", <<"t">>, NoteChars, FALSE)

ScanIdle == ScanInit /\ fsUnreadable = {} /\ fsUndecodable = {}

InitPriority ==
    /\ ScanIdle
    /\ inp \in SeqsUpTo(NoteChars, MaxNoteLen)
    /\ out = Unset

ExtractNote ==
    /\ ~out.set
    /\ out' = Result(LineFindings(TRUE, <<FragP>>, <<"r", "a">>, 1, <<"T">> \o inp))
    /\ UNCHANGED <<inp, scanVars, report>>

SpecPriority == InitPriority /\ [][ExtractNote]_vars

Digits == <<"0", "1", "2", "3", "4", "5", "6", "7", "8", "9">>
DigitValue(c) == (CHOOSE d \in 1..10 : Digits[d] = c) - 1

\* the markers of a note: <<i, k>> when "(" stands at i, k digits follow and then ")"
Markers(note) ==
    {mk \in (1..Len(note)) \X {1, 2} :
        /\ mk[1] + mk[2] + 1 <= Len(note)
        /\ note[mk[1]] = "("
        /\ \A d \in 1..mk[2] : note[mk[1] + d] \in Range(Digits)
        /\ note[mk[1] + mk[2] + 1] = ")"}

MarkerValue(note, mk) ==
    IF mk[2] = 1 THEN DigitValue(note[mk[1] + 1])
    ELSE 10 * DigitValue(note[mk[1] + 1]) + DigitValue(note[mk[1] + 2])

\* C7: the priority of a finding is 50 when its note holds no marker "(" one
\* or two digits ")", and the value of the leftmost marker otherwise; it lies
\* in 0..99.
C7_PriorityOfNote ==
    out.set =>
        /\ Len(out.val) = 1 /\ out.val[1].note = inp
        /\ \A j \in 1..Len(out.val) :
              LET note == out.val[j].note
                  mks == Markers(note)
              IN  /\ out.val[j].priority \in 0..99
                  /\ mks = {} => out.val[j].priority = 50
                  /\ mks # {} =>
                        \E mk \in mks :
                           /\ \A o \in mks : mk[1] <= o[1]
                           /\ out.val[j].priority = MarkerValue(note, mk)

\* a note with two markers of different value got the value of the left one
C7_Witness ==
    /\ out.set
    /\ \E a, b \in Markers(inp) :
          /\ a[1] < b[1]
          /\ MarkerValue(inp, a) # MarkerValue(inp, b)
          /\ \A o \in Markers(inp) : a[1] <= o[1]
          /\ out.val[1].priority = MarkerValue(inp, a)

-----------------------------------------------------------------------------
\* Extraction (specification SpecExtract): extract applied to the lines of a file

LineChars == {"T", "F", "n", "t"}

\* a tag whose note may hold the character of the other tag; a fragment with
\* no named group
FragTW == Frag(<<"T">>, "T", <<"t">>, {"n", "F"}, FALSE)
FragU == Frag(<<"T">>, "T", <<>>, {"n"}, FALSE)
FragFn == Frag(<<"F">>, "F", <<"f">>, {"n"}, FALSE)
FragTn == Frag(<<"T">>, "T", <<"t">>, {"n"}, FALSE)

PatternSets == { <<FragTn, FragFn>>, <<FragTW, FragFn>>, <<FragU, FragFn>>, <<>> }

Filler == <<"F">>

InitExtract ==
    /\ ScanIdle
    /\ \E l \in SeqsUpTo(LineChars, MaxLineLen), fr \in PatternSets, ic \in BOOLEAN :
          \E ls \in { <<l>>, <<Filler, l>>, <<l, Filler>> } :
             inp = [ic |-> ic, frags |-> fr, lines |-> ls]
    /\ out = Unset

ExtractFile ==
    /\ ~out.set
    /\ out' = Result(ExtractLines(inp.ic, inp.frags, <<"r", "a">>, inp.lines))
    /\ UNCHANGED <<inp, scanVars, report>>

SpecExtract == InitExtract /\ [][ExtractFile]_vars

\* what the merged pattern matches on a line, stated without the scan: the
\* matches do not overlap; each is the tag character of the first fragment
\* that accepts it, followed by the longest run of that fragment's note
\* characters; no character outside the matches could start a match
MatchesAreLeftmost(ic, frags, line) ==
    LET ms == finditer(ic, frags, line) IN
    frags # <<>> =>
        /\ \A j \in 1..Len(ms) :
              LET m == ms[j] IN
              /\ m.alt \in 1..Len(frags) /\ 0 <= m.from /\ m.from < m.to /\ m.to <= Len(line)
              /\ CharEq(ic, frags[m.alt].lit, line[m.from + 1])
              /\ \A k \in 1..(m.alt - 1) : ~CharEq(ic, frags[k].lit, line[m.from + 1])
              /\ \A i \in (m.from + 2)..m.to : InCls(ic, frags[m.alt].cls, line[i])
              /\ m.to < Len(line) => ~InCls(ic, frags[m.alt].cls, line[m.to + 1])
              /\ j < Len(ms) => m.to <= ms[j + 1].from
        /\ \A i \in 1..Len(line) :
              (\A j \in 1..Len(ms) : i <= ms[j].from \/ i > ms[j].to) =>
                 \A k \in 1..Len(frags) : ~CharEq(ic, frags[k].lit, line[i])

\* one <<tag, note, line number>> per match whose alternative has a named group
ExpectedOfLine(ic, frags, num, line) ==
    LET ms == finditer(ic, frags, line) IN
    Flatten([j \in 1..Len(ms) |->
                IF ms[j].alt # 0 /\ frags[ms[j].alt].group # <<>>
                THEN << <<frags[ms[j].alt].group, SubSeq(line, ms[j].from + 2, ms[j].to), num>> >>
                ELSE <<>>])

\* C8: extract yields one finding per participating named group per
\* non-overlapping match of the merged pattern on a line, the empty note
\* included, each with the 1-based number of the line.
C8_OneFindingPerGroupPerMatch ==
    out.set =>
        /\ \A num \in 1..Len(inp.lines) : MatchesAreLeftmost(inp.ic, inp.frags, inp.lines[num])
        /\ [j \in 1..Len(out.val) |-> <<out.val[j].patt, out.val[j].note, out.val[j].line>>]
              = Flatten([num \in 1..Len(inp.lines) |->
                            ExpectedOfLine(inp.ic, inp.frags, num, inp.lines[num])])

\* two tag patterns matched disjoint regions of line 2: two findings with the
\* same line number and different tags, one of them with an empty note
C8_Witness ==
    /\ out.set
    /\ Len(inp.lines) = 2
    /\ \E i, j \in 1..Len(out.val) :
          /\ out.val[i].line = 2 /\ out.val[j].line = 2
          /\ out.val[i].patt # out.val[j].patt
          /\ out.val[i].note = <<>> /\ out.val[j].note # <<>>

\* C17: every match of the fragment of a patterns entry produces a finding
\* whose tag is the key of that entry, whether or not the fragment declares a
\* named group of its own.
C17_TagIsMappingKey ==
    out.set =>
        \A num \in 1..Len(inp.lines) :
            LET ms == finditer(inp.ic, inp.frags, inp.lines[num]) IN
            \A k \in 1..Len(ms) :
                ms[k].alt # 0 =>
                    \E j \in 1..Len(out.val) :
                        /\ out.val[j].line = num
                        /\ out.val[j].patt = inp.frags[ms[k].alt].key

\* what holds instead: the tag of a finding is the name of the group its
\* fragment declares, and a fragment that declares none yields no finding
TagIsGroupName ==
    out.set =>
        \A j \in 1..Len(out.val) :
            \E k \in 1..Len(inp.frags) :
                inp.frags[k].group # <<>> /\ out.val[j].patt = inp.frags[k].group

-----------------------------------------------------------------------------
\* Exclude globs (specification SpecGlob): one glob compiled the way
\* Engine.__init__ compiles an exclude list, and searched in one path

GlobChars == {"*", "?", "/", "a"}
PathChars == {"/", "\\", "a", "b"}

\* the globs tried: every string of GlobChars, and two with a character class
Globs ==
    (SeqsUpTo(GlobChars, MaxGlobLen) \ {<<>>})
       \cup { <<"[", "a", "b", "]">>, <<"[", "!", "a", "]", "a">> }

InitGlob ==
    /\ ScanIdle
    /\ \E g \in Globs, p \in SeqsUpTo(PathChars, MaxPathLen), ic \in BOOLEAN :
          inp = [glob |-> g, path |-> p, ic |-> ic]
    /\ out = Unset

\* re.compile(merge_regexes(map(fn_to_regex, [glob])), re_case).search(path)
ExcludeSearch ==
    /\ ~out.set
    /\ out' = Result(search(inp.ic, merge_regexes(RegexesOf(<<inp.glob>>)), inp.path))
    /\ UNCHANGED <<inp, scanVars, report>>

SpecGlob == InitGlob /\ [][ExcludeSearch]_vars

IsSep(c) == c \in {"/", "\\"}

\* standard glob matching of the whole path from position j on: "*" is a run
\* of characters that are not separators, "?" one character that is not a
\* separator, "[...]" one character of the class, "/" either separator
RECURSIVE GlobMatchFrom(_, _, _, _)
GlobMatchFrom(pat, i, path, j) ==
    IF i > Len(pat) THEN j = Len(path)
    ELSE LET c == pat[i]
             e == IF c = "[" THEN ClassEnd(pat, i + 1) ELSE 0
         IN
         CASE c = "*" ->
                \E k \in j..Len(path) :
                   /\ \A x \in (j + 1)..k : ~IsSep(path[x])
                   /\ GlobMatchFrom(pat, i + 1, path, k)
           [] c = "?" -> j < Len(path) /\ ~IsSep(path[j + 1])
                         /\ GlobMatchFrom(pat, i + 1, path, j + 1)
           [] c = "/" -> j < Len(path) /\ IsSep(path[j + 1])
                         /\ GlobMatchFrom(pat, i + 1, path, j + 1)
           [] c = "[" /\ e # 0 ->
                LET stuff == SubSeq(pat, i + 1, e - 1)
                    neg == stuff[1] = "!"
                    items == IF neg THEN Tail(stuff) ELSE stuff
                IN  /\ j < Len(path) /\ ~IsSep(path[j + 1])
                    /\ (\E x \in Range(items) : x = path[j + 1]) # neg
                    /\ GlobMatchFrom(pat, e + 1, path, j + 1)
           [] OTHER -> j < Len(path) /\ path[j + 1] = c
                       /\ GlobMatchFrom(pat, i + 1, path, j + 1)

GlobMatch(pat, path) == GlobMatchFrom(pat, 1, path, 0)

\* C12: the exclude matcher compiled from a glob P accepts a path exactly
\* when the path matches P under standard glob semantics ("*" does not cross
\* a separator, "?" is one character, "[...]" a class), for "/" and for "\"
\* as the separator.
C12_GlobSemantics ==
    out.set => (out.val <=> GlobMatch(inp.glob, inp.path))

\* the part that holds: a path that matches the glob is accepted
GlobMatchIsAccepted ==
    out.set => (GlobMatch(inp.glob, inp.path) => out.val)

-----------------------------------------------------------------------------
\* Decode errors inside a file (specification SpecDecode)

\* The findings extract yields for a file whose decoding fails when line
\* badAt is read (0: it does not fail).  src/plugin calls f.readlines() before
\* it searches the first line, so the error leaves nothing of the file.
\* src/TodoReview.py iterates over the open file, `enumerate(f, 1)`: the
\* findings of the lines read before the error are already yielded.
ReadFindings(variant, ic, frags, p, lines, badAt) ==
    IF badAt = 0 THEN ExtractLines(ic, frags, p, lines)
    ELSE IF variant = "legacy" THEN ExtractLines(ic, frags, p, SubSeq(lines, 1, badAt - 1))
    ELSE <<>>

FileLines == { <<"T", "n">>, <<"F">>, <<"x">> }

OtherFile == <<"r", "g", "b">>

InitDecode ==
    /\ ScanIdle
    /\ \E ls \in SeqsUpTo(FileLines, MaxFileLines), variant \in {"plugin", "legacy"} :
          \E badAt \in 0..Len(ls) :
             inp = [variant |-> variant, lines |-> ls, badAt |-> badAt]
    /\ out = Unset

\* extract over two paths: /r/a, whose decoding may fail, and /r/g/b
ExtractBoth ==
    /\ ~out.set
    /\ out' = Result(ReadFindings(inp.variant, TRUE, <<FragT, FragF>>, <<"r", "a">>,
                                  inp.lines, inp.badAt)
                     \o ReadFindings(inp.variant, TRUE, <<FragT, FragF>>, OtherFile,
                                     DiskLines(OtherFile), 0))
    /\ UNCHANGED <<inp, scanVars, report>>

SpecDecode == InitDecode /\ [][ExtractBoth]_vars

\* C16: a path whose content fails with a read or decode error contributes no
\* finding, wherever in the file the error occurs, and the findings of the
\* other paths are what they are without it.
C16_FailedPathContributesNothing ==
    (out.set /\ inp.badAt # 0) =>
        /\ OfFile(out.val, <<"r", "a">>) = <<>>
        /\ OfFile(out.val, OtherFile)
              = ExtractLines(TRUE, <<FragT, FragF>>, OtherFile, DiskLines(OtherFile))

\* the part that holds: src/plugin leaves nothing of the failed path, and in
\* both variants the other path keeps its findings
PluginDropsFailedPath ==
    (out.set /\ inp.badAt # 0) =>
        /\ inp.variant = "plugin" => OfFile(out.val, <<"r", "a">>) = <<>>
        /\ OfFile(out.val, OtherFile)
              = ExtractLines(TRUE, <<FragT, FragF>>, OtherFile, DiskLines(OtherFile))

-----------------------------------------------------------------------------
\* The walk step by step (specifications SpecWalk and SpecWalkFair): files()
\* over a tree in which a symbolic link to a directory may lead back to an
\* ancestor.
\*
\* The tree: /r holds the file a and the directories g and k; /r/g holds the
\* file b and the symbolic link u; /r/k holds the file c.  u points to /r (an
\* ancestor) or to /r/k.

TreeFiles(real) ==
    IF real = <<"r">> THEN {<<"r", "a">>}
    ELSE IF real = <<"r", "g">> THEN {<<"r", "g", "b">>}
    ELSE {<<"r", "k", "c">>}

TreeSubdirs(real) == IF real = <<"r">> THEN {<<"r", "g">>, <<"r", "k">>} ELSE {}

\* A directory or a file as the walk names it: the real path it denotes and
\* the number of symbolic links on the way to it.  The name grows with every
\* turn through the link; hops = MaxHops stands for MaxHops links or more.
Entry(real, hops) == [real |-> real, hops |-> hops]

MoreHops(h) == IF h < MaxHops THEN h + 1 ELSE MaxHops

\* the subdirectories os.walk(followlinks=True) goes into from the directory d:
\* the real ones, and the directory a symbolic link points to; os.walk keeps
\* no record of the directories it has reported
TreeChildren(d, linkTarget) ==
    {Entry(sub, d.hops) : sub \in TreeSubdirs(d.real)}
       \cup (IF d.real = <<"r", "g">> THEN {Entry(linkTarget, MoreHops(d.hops))} ELSE {})

\* Engine.resolve of a name the walk produced: realpath removes the links
TreeResolve(rs, e) == IF rs THEN Entry(e.real, 0) ELSE e

\* the exclude globs of the scan, "*.z", match no name of this tree, however
\* often its components are repeated
TreeExcluded(e, suffix) ==
    search(TRUE, merge_regexes(RegexesOf(<<GlobZ>>)), ToChars(e.real) \o suffix)

InitWalk ==
    /\ ScanIdle
    /\ \E root \in {<<"r">>, <<"r", "g">>}, linkTarget \in {<<"r">>, <<"r", "k">>},
          rs \in BOOLEAN :
          inp = [root |-> root, linkTarget |-> linkTarget, resolve_symlinks |-> rs]
    /\ out = Unset

\* the worker enters files(): os.walk(self.resolve(dirpath), followlinks=True)
WalkStart ==
    /\ pc[1] = "idle"
    /\ pending' = {TreeResolve(inp.resolve_symlinks, Entry(inp.root, 0))}
    /\ pc' = [pc EXCEPT ![1] = "walk"]
    /\ UNCHANGED <<settings, thread, nRuns, req, engine, todo, seen, cur, yielded, visited,
                   results, count, incs, delivered, opened, fsUnreadable, fsUndecodable,
                   walked, fsMain, lockVars, published, inp, out, report>>

\* os.walk reports one of the directories it has still to report (the order
\* among them is left open): its files become candidates unless the directory
\* is excluded, and its subdirectories are to be reported as well
WalkReport ==
    /\ pc[1] = "walk"
    /\ \E d \in pending :
       /\ walked' = [walked EXCEPT ![1] = @ \cup {d}]
       /\ todo' = [todo EXCEPT ![1] =
                      IF TreeExcluded(d, <<"/">>) THEN @
                      ELSE @ \cup {Entry(f, d.hops) : f \in TreeFiles(d.real)}]
       /\ pending' = (pending \ {d}) \cup TreeChildren(d, inp.linkTarget)
    /\ UNCHANGED <<settings, thread, nRuns, req, pc, engine, seen, cur, yielded, visited,
                   results, count, incs, delivered, opened, fsUnreadable, fsUndecodable,
                   fsMain, lockVars, published, inp, out, report>>

\* the platform refuses a name that runs through too many symbolic links:
\* scandir raises OSError, which os.walk ignores, and the directory is left out
WalkRefused ==
    /\ pc[1] = "walk"
    /\ \E d \in pending :
       /\ d.hops = MaxHops
       /\ pending' = pending \ {d}
    /\ UNCHANGED <<settings, thread, nRuns, req, pc, engine, todo, seen, cur, yielded,
                   visited, results, count, incs, delivered, opened, fsUnreadable,
                   fsUndecodable, walked, fsMain, lockVars, published, inp, out, report>>

\* os.walk is exhausted: files() goes on to its second loop
WalkEnd ==
    /\ pc[1] = "walk"
    /\ pending = {}
    /\ pc' = [pc EXCEPT ![1] = "enum"]
    /\ UNCHANGED <<settings, thread, nRuns, req, engine, todo, seen, cur, yielded, visited,
                   results, count, incs, delivered, opened, fsUnreadable, fsUndecodable,
                   walked, fsMain, pending, lockVars, published, inp, out, report>>

\* one iteration of the second loop of files(), and the scan of the path if
\* it is yielded: the counter goes up by one
TreeNextPath ==
    /\ pc[1] = "enum"
    /\ \E c \in todo[1] :
         LET filepath == TreeResolve(inp.resolve_symlinks, c) IN
         /\ todo' = [todo EXCEPT ![1] = @ \ {c}]
         /\ IF filepath \in seen[1] \/ TreeExcluded(filepath, <<>>)
            THEN UNCHANGED <<seen, count, incs>>
            ELSE /\ seen' = [seen EXCEPT ![1] = @ \cup {filepath}]
                 /\ count' = [count EXCEPT ![1] = @ + 1]
                 /\ incs' = [incs EXCEPT ![1] = @ + 1]
    /\ UNCHANGED <<settings, thread, nRuns, req, pc, engine, cur, yielded, visited, results,
                   delivered, opened, fsUnreadable, fsUndecodable, walked, fsMain,
                   pending, lockVars, published, inp, out, report>>

NextWalk ==
    \/ WalkStart
    \/ WalkReport
    \/ WalkRefused
    \/ WalkEnd
    \/ TreeNextPath
    \/ Finish(1)

SpecWalk == InitWalk /\ [][NextWalk]_vars

\* the worker thread is scheduled as long as it can take a step
SpecWalkFair == SpecWalk /\ WF_vars(NextWalk)

TerminatesWithoutLoop ==
    (inp.linkTarget = <<"r", "k">>) => <>(pc[1] = "done" /\ Len(delivered[1]) = 1)

-----------------------------------------------------------------------------
\* TodoReviewRenderCommand.sort (specification SpecSort)

\* str(n) for a natural number n
RECURSIVE IntToStr(_)
IntToStr(n) == IF n < 10 THEN <<Digits[n + 1]>> ELSE Append(IntToStr(n \div 10), Digits[(n % 10) + 1])

\* a < b for two strings: the comparison of Python's str, by code point
RECURSIVE StrLess(_, _)
StrLess(a, b) ==
    IF b = <<>> THEN FALSE
    ELSE IF a = <<>> THEN TRUE
    ELSE IF Ord(Head(a)) # Ord(Head(b)) THEN Ord(Head(a)) < Ord(Head(b))
    ELSE StrLess(Tail(a), Tail(b))

NoTitle == <<"N", "o", " ", "t", "i", "t", "l", "e">>

\* str(w.get(m["patt"].upper(), <fallback>)): the weights are numbers; the
\* fallback is "No title" (src/plugin) or the tag itself (src/TodoReview.py)
WeightStr(variant, w, m) ==
    LET key == UpperStr(m.patt) IN
    IF key \in DOMAIN w THEN IntToStr(w[key])
    ELSE IF variant = "legacy" THEN m.patt ELSE NoTitle

\* the key of sorted(): (weight string, priority)
sort_key_weight_only(variant, w, m) == <<WeightStr(variant, w, m), 0>>

sort_key(variant, w, m) == <<WeightStr(variant, w, m), m.priority>>

\* a < b for two keys: the comparison of Python's tuples
KeyLess(a, b) == StrLess(a[1], b[1]) \/ (a[1] = b[1] /\ a[2] < b[2])

\* sorted(results, key=...): a stable sort; each element goes behind the
\* elements already placed whose key is not greater than its own
RECURSIVE InsertByKey(_, _, _, _)
InsertByKey(variant, w, sortedSeq, x) ==
    IF sortedSeq = <<>> THEN <<x>>
    ELSE IF KeyLess(sort_key(variant, w, x), sort_key(variant, w, Head(sortedSeq)))
         THEN <<x>> \o sortedSeq
         ELSE <<Head(sortedSeq)>> \o InsertByKey(variant, w, Tail(sortedSeq), x)

RECURSIVE SortedFrom(_, _, _, _)
SortedFrom(variant, w, acc, rest) ==
    IF rest = <<>> THEN acc
    ELSE SortedFrom(variant, w, InsertByKey(variant, w, acc, Head(rest)), Tail(rest))

sorted(variant, w, rs) == SortedFrom(variant, w, <<>>, rs)

\* itertools.groupby(results, key=lambda m: m["patt"]): the runs of equal tag
RECURSIVE groupby(_)
groupby(rs) ==
    IF rs = <<>> THEN <<>>
    ELSE LET rest == groupby(Tail(rs)) IN
         IF rest # <<>> /\ rest[1].patt = Head(rs).patt
         THEN <<[patt |-> Head(rs).patt, items |-> <<Head(rs)>> \o rest[1].items]>> \o Tail(rest)
         ELSE <<[patt |-> Head(rs).patt, items |-> <<Head(rs)>>]>> \o rest

\* TodoReviewRenderCommand.sort: the groups, and the sorted list they are cut from
sort(variant, w, rs) ==
    LET srt == sorted(variant, w, rs)
    IN  [sorted |-> srt, groups |-> groupby(srt)]

TagA == <<"A">>
TagB == <<"B">>
TagLowerA == <<"a">>

SortItems == {Finding(<<"r", "a">>, t, <<>>, 1, pr) : t \in {TagA, TagB, TagLowerA}, pr \in {1, 3}}

\* patterns_weight: {A:1, B:2}, {A:10, B:2}, {A:1, B:1}, {B:2} and {}
WeightMaps ==
    { (TagA :> 1) @@ (TagB :> 2),
      (TagA :> 10) @@ (TagB :> 2),
      (TagA :> 1) @@ (TagB :> 1),
      (TagB :> 2),
      [k \in {} |-> 0] }

InitSort ==
    /\ ScanIdle
    /\ \E rs \in SeqsUpTo(SortItems, MaxFindings), w \in WeightMaps,
          variant \in {"plugin", "legacy"} :
          inp = [variant |-> variant, w |-> w, results |-> rs]
    /\ out = Unset

SortResults ==
    /\ ~out.set
    /\ out' = Result(sort(inp.variant, inp.w, inp.results))
    /\ UNCHANGED <<inp, scanVars, report>>

SpecSort == InitSort /\ [][SortResults]_vars

Occurrences(sq, x) == Cardinality({i \in 1..Len(sq) : sq[i] = x})

\* the string form of the weight of a finding, as the claim states it
WeightOf(f) ==
    IF UpperStr(f.patt) \in DOMAIN inp.w THEN IntToStr(inp.w[UpperStr(f.patt)])
    ELSE IF inp.variant = "legacy" THEN f.patt ELSE NoTitle

\* C9: the organizer orders the findings by the string form of the weight of
\* the upper-cased tag, then by ascending priority, and cuts the result into
\* runs of equal tag; the output is a permutation of the input, priorities do
\* not decrease inside a group, and [A/3, A/1, B/1] with {A:1, B:2} comes out
\* as [A/1, A/3, B/1].
C9_SortedByWeightThenPriority ==
    out.set =>
        LET srt == out.val.sorted
            gs == out.val.groups
        IN  /\ Len(srt) = Len(inp.results)
            /\ \A x \in SortItems : Occurrences(srt, x) = Occurrences(inp.results, x)
            /\ \A i \in 1..(Len(srt) - 1) :
                  \/ StrLess(WeightOf(srt[i]), WeightOf(srt[i + 1]))
                  \/ /\ WeightOf(srt[i]) = WeightOf(srt[i + 1])
                     /\ srt[i].priority <= srt[i + 1].priority
            /\ Flatten([g \in 1..Len(gs) |-> gs[g].items]) = srt
            /\ \A g \in 1..Len(gs) :
                  /\ gs[g].items # <<>>
                  /\ \A i \in 1..Len(gs[g].items) : gs[g].items[i].patt = gs[g].patt
                  /\ \A i \in 1..(Len(gs[g].items) - 1) :
                        gs[g].items[i].priority <= gs[g].items[i + 1].priority
                  /\ g < Len(gs) => gs[g].patt # gs[g + 1].patt
            /\ ( /\ inp.w = (TagA :> 1) @@ (TagB :> 2)
                 /\ [i \in 1..Len(inp.results) |-> <<inp.results[i].patt, inp.results[i].priority>>]
                       = << <<TagA, 3>>, <<TagA, 1>>, <<TagB, 1>> >> )
               => [i \in 1..Len(srt) |-> <<srt[i].patt, srt[i].priority>>]
                     = << <<TagA, 1>>, <<TagA, 3>>, <<TagB, 1>> >>

\* the findings of the example were organized: A/1, A/3 in one group, B/1 in the next
C9_Witness ==
    /\ out.set
    /\ inp.w = (TagA :> 1) @@ (TagB :> 2)
    /\ [i \in 1..Len(inp.results) |-> <<inp.results[i].patt, inp.results[i].priority>>]
          = << <<TagA, 3>>, <<TagA, 1>>, <<TagB, 1>> >>
    /\ Len(out.val.groups) = 2
    /\ [i \in 1..2 |-> out.val.groups[1].items[i].priority] = <<1, 3>>
    /\ out.val.groups[2].patt = TagB

-----------------------------------------------------------------------------
\* Two scans of the same files, organized (specification SpecOrder)

\* most findings of one file
MaxPerFile == 2

\* the findings a file can hold, in the order of its lines: tag A or B,
\* priority 1 or 3
FileItems(p) ==
    { [i \in 1..Len(tp) |-> Finding(p, tp[i][1], <<>>, i, tp[i][2])] :
        tp \in SeqsUpTo({TagA, TagB} \X {1, 3}, MaxPerFile) }

\* the orders in which `for filepath in self.filepaths` can go through the
\* set of candidate paths
Enumerations ==
    { sq \in [1..Cardinality(RealFiles) -> RealFiles] : Range(sq) = RealFiles }

\* list(self.engine.process()): the findings of the files, file after file in
\* the order of the enumeration
ScanResults(byFile, enum) == Flatten([i \in 1..Len(enum) |-> byFile[enum[i]]])

InitOrder ==
    /\ ScanIdle
    /\ \E a \in FileItems(<<"r", "a">>), b \in FileItems(<<"r", "g", "b">>),
          w \in WeightMaps, variant \in {"plugin", "legacy"},
          first \in Enumerations, second \in Enumerations :
          inp = [variant |-> variant, w |-> w,
                 findings |-> (<<"r", "a">> :> a) @@ (<<"r", "g", "b">> :> b),
                 first |-> first, second |-> second]
    /\ out = Unset

\* the two scans are rendered: each result list goes through sort()
OrganizeBoth ==
    /\ ~out.set
    /\ out' = Result([first |-> sort(inp.variant, inp.w, ScanResults(inp.findings, inp.first)),
                      second |-> sort(inp.variant, inp.w, ScanResults(inp.findings, inp.second))])
    /\ UNCHANGED <<inp, scanVars, report>>

SpecOrder == InitOrder /\ [][OrganizeBoth]_vars

\* C21: two scans that produce the same set of findings but enumerate the
\* files in different orders yield the same sequence of findings and the same
\* sequence of groups, also when findings share weight string and priority and
\* when several tags have no configured weight.
C21_OrderIndependentOfEnumeration ==
    out.set =>
        /\ out.val.first.sorted = out.val.second.sorted
        /\ out.val.first.groups = out.val.second.groups

\* the keys (weight string, priority) of the organized findings
KeysOf(srt) == [i \in 1..Len(srt) |-> sort_key(inp.variant, inp.w, srt[i])]

\* the part that holds: the two organized lists hold the same findings and
\* show the same sequence of keys; findings of equal key keep the order of the
\* enumeration
KeysIndependentOfEnumeration ==
    out.set =>
        /\ Range(out.val.first.sorted) = Range(out.val.second.sorted)
        /\ Len(out.val.first.sorted) = Len(out.val.second.sorted)
        /\ KeysOf(out.val.first.sorted) = KeysOf(out.val.second.sorted)

-----------------------------------------------------------------------------
\* TodoReviewResultsCommand.run: navigation in the report (specification SpecNav)

\* most results of a report, largest configured skip size
MaxResults == 3
MaxSkip == 3

\* the skip size when the setting is absent
DefaultSkip == 10

Directions == {"down", "up", "down_skip", "up_skip"}

\* settings.get(name, default) / self.settings.get(name, default)
SettingsGet(v, default) == IF v.set THEN v.val ELSE default

\* navigation_forward_skip, navigation_backward_skip: absent, or a positive number
SkipValues == {Unset} \cup {Result(k) : k \in 1..MaxSkip}

start_arr(d) == IF d \in {"down", "down_skip"} THEN -1 ELSE 0

dir_arr(d, nav) ==
    CASE d = "down" -> 1
      [] d = "up" -> -1
      [] d = "down_skip" -> SettingsGet(nav.navigation_forward_skip, DefaultSkip)
      [] d = "up_skip" -> SettingsGet(nav.navigation_backward_skip, DefaultSkip) * (-1)

\* the regions draw_results registers under "results": one per result line,
\* in the order drawn (a region is named by the number of its line)
Regions(n) == [i \in 1..n |-> i]

\* the three tests on sel, one after the other; n is len(results)
WrappedNoLast(sel, n) == IF sel < 0 \/ sel >= n THEN 0 ELSE sel

Wrapped(sel, n) ==
    LET s1 == IF sel = -1 THEN n - 1 ELSE sel
        s2 == IF s1 < 0 THEN 0 ELSE s1
    IN  IF s2 >= n THEN 0 ELSE s2

\* target = results[sel] (Python counts from 0)
TargetFirst(rs, sel) == rs[1]

Target(rs, sel) == rs[sel + 1]

InitNav ==
    /\ ScanIdle
    /\ inp \in [navigation_forward_skip : SkipValues, navigation_backward_skip : SkipValues]
    /\ out = Unset

\* draw_results: the report is drawn, for the first time or again, with n
\* results; the regions "results" and the setting review_results are replaced,
\* the setting selected_result and the regions "selection" are not touched
DrawResults ==
    /\ \E n \in 0..MaxResults :
          report' = [report EXCEPT !.results = Regions(n),
                                   !.settings.review_results = Regions(n),
                                   !.last = NoCommand]
    /\ UNCHANGED <<inp, out, scanVars>>

\* run(refresh=True): past the guard, the scan is started again (it ends in
\* DrawResults) and selected_result is erased
Refresh ==
    /\ report.settings.review_results # <<>>
    /\ report' = [report EXCEPT !.settings.selected_result = Unset, !.last = NoCommand]
    /\ UNCHANGED <<inp, out, scanVars>>

\* run(direction=d); `last` records the command and what it found
Navigate(d) ==
    /\ LET found == [direction |-> d, settings |-> report.settings,
                     selection |-> report.selection]
       IN  IF report.settings.review_results = <<>> \/ report.results = <<>>
           THEN report' = [report EXCEPT !.last = found]
           ELSE LET sel0 == SettingsGet(report.settings.selected_result, start_arr(d))
                    sel == Wrapped(sel0 + dir_arr(d, inp), Len(report.results))
                IN  report' = [report EXCEPT !.settings.selected_result = Result(sel),
                                             !.selection = <<Target(report.results, sel)>>,
                                             !.last = found]
    /\ UNCHANGED <<inp, out, scanVars>>

NextNav ==
    \/ DrawResults
    \/ Refresh
    \/ \E d \in Directions : Navigate(d)

SpecNav == InitNav /\ [][NextNav]_vars

\* C22: after a navigation command on a report with results, selected_result
\* is an index in 0..len(results)-1 and the highlighted region is the result
\* at that index; a navigation command on a report without results changes
\* nothing.
C22_SelectionInRange ==
    report.last.direction \in Directions =>
        IF report.results = <<>>
        THEN /\ report.settings = report.last.settings
             /\ report.selection = report.last.selection
        ELSE /\ report.settings.selected_result.set
             /\ report.settings.selected_result.val \in 0..(Len(report.results) - 1)
             /\ report.selection = <<report.results[report.settings.selected_result.val + 1]>>

\* a second navigation command in a row has moved the selection to the last
\* of several results
C22_Witness ==
    /\ report.last.direction = "down"
    /\ report.last.settings.selected_result.set
    /\ Len(report.results) = MaxResults
    /\ report.settings.selected_result = Result(MaxResults - 1)
    /\ report.selection = <<report.results[MaxResults]>>

\* C23: from the index i the command found (-1 for down and down_skip, 0 for
\* up and up_skip when nothing is selected) and the signed step s, the command
\* selects the last index when i+s = -1, index 0 when i+s < -1 or
\* i+s >= len(results), and i+s otherwise; the first down selects the first
\* result, the first up the last, down on the last result the first, and a
\* backward skip that overshoots the start by one the last result, by more the
\* first.
C23_NavigationStep ==
    (report.last.direction \in Directions /\ report.results # <<>>) =>
        LET d == report.last.direction
            n == Len(report.results)
            was == report.last.settings.selected_result
            i == IF was.set THEN was.val ELSE IF d \in {"down", "down_skip"} THEN -1 ELSE 0
            fwd == IF inp.navigation_forward_skip.set THEN inp.navigation_forward_skip.val ELSE DefaultSkip
            bwd == IF inp.navigation_backward_skip.set THEN inp.navigation_backward_skip.val ELSE DefaultSkip
            s == IF d = "down" THEN 1 ELSE IF d = "up" THEN -1
                 ELSE IF d = "down_skip" THEN fwd ELSE 0 - bwd
            now == report.settings.selected_result.val
        IN  /\ i + s = -1 => now = n - 1
            /\ i + s < -1 => now = 0
            /\ i + s >= n => now = 0
            /\ (i + s >= 0 /\ i + s < n) => now = i + s
            /\ (d = "down" /\ ~was.set) => now = 0
            /\ (d = "up" /\ ~was.set) => now = n - 1
            /\ (d = "down" /\ was.set /\ was.val = n - 1) => now = 0
            /\ (d = "up_skip" /\ was.set /\ was.val - bwd = -1) => now = n - 1
            /\ (d = "up_skip" /\ was.set /\ was.val - bwd < -1) => now = 0

\* a backward skip from the second result, two results wide, has landed on the
\* last of several results
C23_Witness ==
    /\ report.last.direction = "up_skip"
    /\ report.last.settings.selected_result = Result(1)
    /\ inp.navigation_backward_skip = Result(2)
    /\ Len(report.results) = MaxResults
    /\ report.settings.selected_result = Result(MaxResults - 1)

====
